---- MODULE Spec2Model ----
(***************************************************************************)
(* Model of GFit-Intervals-sync.                                           *)
(*                                                                         *)
(*   Spec      google_fit_api.py, GoogleFitAPI.get_sleep_sessions: the     *)
(*             sweep that hands the provider's sleep segments to the       *)
(*             provider's sleep sessions and fills the uncovered edges.    *)
(*   SpecSync  sync.py, run and sync: the loop over the configured users   *)
(*             and the reconciliation of one user's wellness ledger.       *)
(*                                                                         *)
(* Instants are integers (ticks).  Python sequences are indexed from 0;    *)
(* session_index keeps the 0-based value and sleep_sessions[session_index  *)
(* + 1] is the session it denotes.                                         *)
(***************************************************************************)
EXTENDS Integers, Sequences, FiniteSets

VARIABLES
    pc,               \* position inside get_sleep_sessions
    segments,         \* the segments=... argument of the call
    sleep_sessions,   \* tuple of SleepSession built from the provider's answer
    sleep_segments,   \* tuple of SleepSegment returned by get_sleep_segments
    next_segment,     \* position of the for loop over sleep_segments (1-based)
    session_index,    \* the cursor over sleep_sessions (0-based, as in the code)
    returned,         \* what the caller received (<<>> until a return)
    run_pc,           \* position inside run / sync
    users,            \* user_config.sections(): the configured users are 1..users
    user_pos,         \* position of run's for loop over users (1-based)
    outcome,          \* per user: how its call of sync ended ("none" before it)
    data,             \* sync: the wellness ledger, date -> fields that are NaN
    fit_sessions,     \* sync: the provider's sleep sessions (sleep_sessions in sync)
    data_to_update,   \* sync: date -> fields set in data_to_update[date]
    updates           \* sync: the wellness.update calls issued, <<date, fields>>

mergeVars == <<pc, segments, sleep_sessions, sleep_segments, next_segment,
               session_index, returned>>

syncVars == <<run_pc, users, user_pos, outcome, data, fit_sessions,
              data_to_update, updates>>

vars == <<mergeVars, syncVars>>

(***************************************************************************)
(* Bounds of the model.                                                    *)
(***************************************************************************)
MaxTime == 2
MaxSessions == 2
MaxSegments == 2
MaxUsers == 2
MaxFitSessions == 1
\* DAYS_TO_COMPARE (sync.py line 55, 30 days) scaled down: the ledger holds the
\* dates today - DaysToCompare .. today.
DaysToCompare == 1

Time == 0..MaxTime

(***************************************************************************)
(* google_fit_api.py: the data types.                                      *)
(***************************************************************************)
SleepType == {"Awake", "Sleep", "Out_of_bed", "Light_Sleep", "Deep_Sleep", "REM"}

\* Mutant of ASLEEP_TYPES: REM left out of the tuple.
ASLEEP_TYPES_WithoutREM == {"Sleep", "Light_Sleep", "Deep_Sleep"}

ASLEEP_TYPES == {"Sleep", "Light_Sleep", "Deep_Sleep", "REM"}

\* A SleepSegment.  origin stands for the identity of the Python object: the
\* position of the segment in the provider's answer, 0 for a segment that
\* get_sleep_sessions constructs itself.
SleepSegment(start_time, end_time, sleep_type, origin) ==
    [start_time |-> start_time, end_time |-> end_time,
     sleep_type |-> sleep_type, origin |-> origin]

\* SleepSession.from_dict: the segment list starts empty.
SleepSession(start_time, end_time) ==
    [start_time |-> start_time, end_time |-> end_time, sleep_segments |-> <<>>]

\* SleepSegment.duration
duration(segment) == segment.end_time - segment.start_time

RECURSIVE SumDurations(_, _)
SumDurations(segs, sleep_types) ==
    IF segs = <<>> THEN 0
    ELSE (IF Head(segs).sleep_type \in sleep_types THEN duration(Head(segs)) ELSE 0)
         + SumDurations(Tail(segs), sleep_types)

\* SleepSession.sleep_type_duration
sleep_type_duration(session, sleep_types) ==
    SumDurations(session.sleep_segments, sleep_types)

asleep_duration(session) == sleep_type_duration(session, ASLEEP_TYPES)

awake_duration(session) == sleep_type_duration(session, {"Awake"})

(***************************************************************************)
(* What the provider can answer to get_sessions and get_sleep_segments.    *)
(* The code builds one SleepSession / SleepSegment per record, in the      *)
(* order of the answer.  The provider is outside the repository: Spec      *)
(* takes answers in chronological order (sessions pairwise disjoint),      *)
(* SpecAnyOrder takes them in any order.                                   *)
(***************************************************************************)
Intervals == {iv \in Time \X Time : iv[1] <= iv[2]}

\* Stages of the provider's segments in Spec: an asleep stage equal to the
\* filler's, an asleep stage that differs, and the two that are not asleep.
ProviderStages == {"Awake", "Sleep", "Out_of_bed", "REM"}

\* Stage of the provider's segments in SpecAnyOrder, where only the order of
\* the records varies.
AnyOrderStages == {"Sleep"}

SessionsOf(ivs) == [i \in 1..Len(ivs) |-> SleepSession(ivs[i][1], ivs[i][2])]

SegmentsOf(recs) ==
    [i \in 1..Len(recs) |-> SleepSegment(recs[i][1][1], recs[i][1][2], recs[i][2], i)]

SortedByStart(seq) ==
    \A i \in 1..(Len(seq) - 1) : seq[i].start_time <= seq[i + 1].start_time

Disjoint(seq) ==
    \A i \in 1..(Len(seq) - 1) : seq[i].end_time < seq[i + 1].start_time

\* The answers Spec takes: records in chronological order.
ChronologicalSessions(answer) == SortedByStart(answer) /\ Disjoint(answer)

\* The answers SpecAnyOrder takes: sessions that last, in any order, free to
\* overlap or touch.
AnyOrderSessions(answer) ==
    \A i \in 1..Len(answer) : answer[i].start_time < answer[i].end_time

ChronologicalSegments(answer) == SortedByStart(answer)

(***************************************************************************)
(* get_sleep_sessions, lines 217-230: the sweep.                           *)
(***************************************************************************)
\* Mutant of Contains: the lower bound of the chained comparison is lost.
ContainsUpToEnd(sleep_session, sleep_segment) ==
    sleep_segment.start_time <= sleep_session.end_time

\* line 223
Contains(sleep_session, sleep_segment) ==
    /\ sleep_session.start_time <= sleep_segment.start_time
    /\ sleep_segment.start_time <= sleep_session.end_time

\* lines 220-228: the while loop; the value of session_index when it ends
\* (Len(sessions) when it runs off the end, the else branch of line 229).
RECURSIVE FindSession(_, _, _)
FindSession(sessions, index, sleep_segment) ==
    IF index < Len(sessions)
    THEN IF Contains(sessions[index + 1], sleep_segment)
         THEN index
         ELSE FindSession(sessions, index + 1, sleep_segment)
    ELSE index

\* Mutant of AppendSegment: the list is assigned instead of appended to.
AssignSegmentList(sessions, index, sleep_segment) ==
    [sessions EXCEPT ![index + 1].sleep_segments = <<sleep_segment>>]

\* line 224
AppendSegment(sessions, index, sleep_segment) ==
    [sessions EXCEPT ![index + 1].sleep_segments = Append(@, sleep_segment)]

(***************************************************************************)
(* get_sleep_sessions, lines 232-240: the fillers.                         *)
(***************************************************************************)
\* Mutant of NeedsLeadingFiller: >= instead of >.
NeedsLeadingFillerOrEqual(sleep_session) ==
    sleep_session.sleep_segments[1].start_time >= sleep_session.start_time

\* lines 236-237
NeedsLeadingFiller(sleep_session) ==
    sleep_session.sleep_segments[1].start_time > sleep_session.start_time

\* Mutant of NeedsTrailingFiller: the first segment is read instead of the last.
NeedsTrailingFillerFirst(sleep_session) ==
    sleep_session.sleep_segments[1].end_time < sleep_session.end_time

\* lines 239-240
NeedsTrailingFiller(sleep_session) ==
    sleep_session.sleep_segments[Len(sleep_session.sleep_segments)].end_time
        < sleep_session.end_time

\* Mutant of FillSession: a session without segments is left without any.
FillSessionEdgesOnly(sleep_session) ==
    LET segs == sleep_session.sleep_segments IN
    IF Len(segs) = 0
    THEN sleep_session
    ELSE LET lead == IF NeedsLeadingFiller(sleep_session)
                     THEN <<SleepSegment(sleep_session.start_time, segs[1].start_time, "Sleep", 0)>>
                     ELSE <<>>
             withLead == lead \o segs
             trail == IF NeedsTrailingFiller([sleep_session EXCEPT !.sleep_segments = withLead])
                      THEN <<SleepSegment(withLead[Len(withLead)].end_time,
                                          sleep_session.end_time, "Sleep", 0)>>
                      ELSE <<>>
         IN [sleep_session EXCEPT !.sleep_segments = withLead \o trail]

\* lines 232-240, the body of the for loop over the sessions
FillSession(sleep_session) ==
    LET segs == sleep_session.sleep_segments IN
    IF Len(segs) = 0
    THEN [sleep_session EXCEPT !.sleep_segments =
            <<SleepSegment(sleep_session.start_time, sleep_session.end_time, "Sleep", 0)>>]
    ELSE LET lead == IF NeedsLeadingFiller(sleep_session)
                     THEN <<SleepSegment(sleep_session.start_time, segs[1].start_time, "Sleep", 0)>>
                     ELSE <<>>
             withLead == lead \o segs
             trail == IF NeedsTrailingFiller([sleep_session EXCEPT !.sleep_segments = withLead])
                      THEN <<SleepSegment(withLead[Len(withLead)].end_time,
                                          sleep_session.end_time, "Sleep", 0)>>
                      ELSE <<>>
         IN [sleep_session EXCEPT !.sleep_segments = withLead \o trail]

FillGaps(sessions) == [i \in 1..Len(sessions) |-> FillSession(sessions[i])]

(***************************************************************************)
(* get_sleep_sessions as a state machine.                                  *)
(***************************************************************************)
\* No run of sync.py is in progress.
SyncIdle ==
    /\ run_pc = "idle"
    /\ users = 0
    /\ user_pos = 1
    /\ outcome = <<>>
    /\ data = <<>>
    /\ fit_sessions = <<>>
    /\ data_to_update = <<>>
    /\ updates = {}

InitMerge ==
    /\ pc = "call"
    /\ segments \in BOOLEAN
    /\ sleep_sessions = <<>>
    /\ sleep_segments = <<>>
    /\ next_segment = 1
    /\ session_index = 0
    /\ returned = <<>>
    /\ SyncIdle

\* line 201
GetSessions(chronological) ==
    /\ pc = "call"
    /\ \E n \in 0..MaxSessions : \E ivs \in [1..n -> Intervals] :
          LET answer == SessionsOf(ivs)
          IN /\ IF chronological THEN ChronologicalSessions(answer)
                                  ELSE AnyOrderSessions(answer)
             /\ sleep_sessions' = answer
    /\ pc' = "sessions"
    /\ UNCHANGED <<segments, sleep_segments, next_segment, session_index, returned>>
    /\ UNCHANGED syncVars

\* lines 203-204
ReturnEmpty ==
    /\ pc = "sessions"
    /\ Len(sleep_sessions) = 0
    /\ pc' = "returned"
    /\ returned' = <<>>
    /\ UNCHANGED <<segments, sleep_sessions, sleep_segments, next_segment, session_index>>
    /\ UNCHANGED syncVars

\* lines 209-210
ReturnSessions ==
    /\ pc = "sessions"
    /\ Len(sleep_sessions) # 0
    /\ ~segments
    /\ pc' = "returned"
    /\ returned' = sleep_sessions
    /\ UNCHANGED <<segments, sleep_sessions, sleep_segments, next_segment, session_index>>
    /\ UNCHANGED syncVars

\* lines 212-217
GetSleepSegments(stages, chronological) ==
    /\ pc = "sessions"
    /\ Len(sleep_sessions) # 0
    /\ segments
    /\ \E n \in 0..MaxSegments : \E recs \in [1..n -> Intervals \X stages] :
          LET answer == SegmentsOf(recs)
          IN /\ chronological => ChronologicalSegments(answer)
             /\ sleep_segments' = answer
    /\ session_index' = 0
    /\ next_segment' = 1
    /\ pc' = "sweep"
    /\ UNCHANGED <<segments, sleep_sessions, returned>>
    /\ UNCHANGED syncVars

\* Mutant of AssignSegment: the cursor moves on after the append.
AssignSegmentAndAdvance ==
    /\ pc = "sweep"
    /\ next_segment <= Len(sleep_segments)
    /\ LET sleep_segment == sleep_segments[next_segment]
           found == FindSession(sleep_sessions, session_index, sleep_segment)
       IN /\ found < Len(sleep_sessions)
          /\ sleep_sessions' = AppendSegment(sleep_sessions, found, sleep_segment)
          /\ session_index' = found + 1
    /\ next_segment' = next_segment + 1
    /\ UNCHANGED <<pc, segments, sleep_segments, returned>>
    /\ UNCHANGED syncVars

\* lines 219-228, one iteration of the for loop that ends in the break
AssignSegment ==
    /\ pc = "sweep"
    /\ next_segment <= Len(sleep_segments)
    /\ LET sleep_segment == sleep_segments[next_segment]
           found == FindSession(sleep_sessions, session_index, sleep_segment)
       IN /\ found < Len(sleep_sessions)
          /\ sleep_sessions' = AppendSegment(sleep_sessions, found, sleep_segment)
          /\ session_index' = found
    /\ next_segment' = next_segment + 1
    /\ UNCHANGED <<pc, segments, sleep_segments, returned>>
    /\ UNCHANGED syncVars

\* Mutant of RaiseIllegalState: the segment is dropped and the loop goes on.
SkipSegment ==
    /\ pc = "sweep"
    /\ next_segment <= Len(sleep_segments)
    /\ LET sleep_segment == sleep_segments[next_segment]
           found == FindSession(sleep_sessions, session_index, sleep_segment)
       IN /\ found >= Len(sleep_sessions)
          /\ session_index' = found
    /\ next_segment' = next_segment + 1
    /\ UNCHANGED <<pc, segments, sleep_sessions, sleep_segments, returned>>
    /\ UNCHANGED syncVars

\* lines 219-230, the iteration whose while loop runs off the end
RaiseIllegalState ==
    /\ pc = "sweep"
    /\ next_segment <= Len(sleep_segments)
    /\ LET sleep_segment == sleep_segments[next_segment]
           found == FindSession(sleep_sessions, session_index, sleep_segment)
       IN /\ found >= Len(sleep_sessions)
          /\ session_index' = found
    /\ pc' = "raised"
    /\ UNCHANGED <<segments, sleep_sessions, sleep_segments, next_segment, returned>>
    /\ UNCHANGED syncVars

\* lines 232-242
FillAndReturn ==
    /\ pc = "sweep"
    /\ next_segment > Len(sleep_segments)
    /\ sleep_sessions' = FillGaps(sleep_sessions)
    /\ returned' = sleep_sessions'
    /\ pc' = "returned"
    /\ UNCHANGED <<segments, sleep_segments, next_segment, session_index>>
    /\ UNCHANGED syncVars

NextMerge ==
    \/ GetSessions(TRUE)
    \/ ReturnEmpty
    \/ ReturnSessions
    \/ GetSleepSegments(ProviderStages, TRUE)
    \/ AssignSegment
    \/ RaiseIllegalState
    \/ FillAndReturn

NextAnyOrder ==
    \/ GetSessions(FALSE)
    \/ ReturnEmpty
    \/ ReturnSessions
    \/ GetSleepSegments(AnyOrderStages, FALSE)
    \/ AssignSegment
    \/ RaiseIllegalState
    \/ FillAndReturn

Spec == InitMerge /\ [][NextMerge]_vars

SpecAnyOrder == InitMerge /\ [][NextAnyOrder]_vars

(***************************************************************************)
(* sync.py: sync, the reconciliation of one user's wellness ledger.        *)
(* Dates are integers; the values written to the ledger are left out, a    *)
(* dict of values is modelled by the set of its keys.  A provider session  *)
(* is kept as the date its end falls on, the one thing sync branches on.   *)
(***************************************************************************)
\* line 138: date.today(), and the dates the ledger is asked for
today == DaysToCompare

Dates == (today - DaysToCompare)..today

\* The columns sync reads from the ledger and writes back.
Fields == {"weight", "restingHR", "sleepSecs"}

\* lines 140-142
missing_weight_dates == {d \in Dates : "weight" \in data[d]}

missing_resting_hr_dates == {d \in Dates : "restingHR" \in data[d]}

missing_sleep_dates == {d \in Dates : "sleepSecs" \in data[d]}

\* line 146
combined_sleep_hr == missing_sleep_dates \cup missing_resting_hr_dates \cup {today}

\* line 144: the empty defaultdict
NoUpdate == [d \in Dates |-> {}]

\* A loop body that records both fields for the session's end date whatever
\* the ledger holds.
CollectSessionUnconditional(to_update, sleep_session) ==
    [to_update EXCEPT ![sleep_session.end_date] = @ \cup {"sleepSecs", "restingHR"}]

\* lines 162-172, the body of the loop over the sessions
CollectSession(to_update, sleep_session) ==
    LET end_date == sleep_session.end_date
        sleep == IF end_date \in missing_sleep_dates \/ end_date = today
                 THEN {"sleepSecs"} ELSE {}
        hr == IF end_date \in missing_resting_hr_dates \/ end_date = today
              THEN {"restingHR"} ELSE {}
    IN [to_update EXCEPT ![end_date] = @ \cup sleep \cup hr]

\* lines 161-172
RECURSIVE CollectSessions(_, _)
CollectSessions(to_update, sessions) ==
    IF sessions = <<>>
    THEN to_update
    ELSE CollectSessions(CollectSession(to_update, Head(sessions)), Tail(sessions))

\* lines 179-181; weight_values is the set of dates the provider has a weight for
CollectWeights(to_update, weight_values) ==
    [d \in Dates |->
        IF d \in missing_weight_dates /\ d \in weight_values
        THEN to_update[d] \cup {"weight"}
        ELSE to_update[d]]

\* lines 183-186: one wellness.update call per key of data_to_update
UpdateCalls(to_update) ==
    {<<d, to_update[d]>> : d \in {x \in Dates : to_update[x] # {}}}

\* No call of get_sleep_sessions is in progress.
MergeIdle ==
    /\ pc = "idle"
    /\ segments = FALSE
    /\ sleep_sessions = <<>>
    /\ sleep_segments = <<>>
    /\ next_segment = 1
    /\ session_index = 0
    /\ returned = <<>>

\* run, lines 117-126: the configured users are read
InitSync ==
    /\ run_pc = "run"
    /\ users \in 0..MaxUsers
    /\ user_pos = 1
    /\ outcome = [u \in 1..users |-> "none"]
    /\ data = NoUpdate
    /\ fit_sessions = <<>>
    /\ data_to_update = NoUpdate
    /\ updates = {}
    /\ MergeIdle

\* run lines 128-132 call sync; sync lines 135-157: the ledger and the
\* provider's sessions are fetched
SyncFetch ==
    /\ run_pc = "run"
    /\ user_pos <= users
    /\ \E ledger \in [Dates -> SUBSET Fields] : data' = ledger
    /\ \E n \in 0..MaxFitSessions : \E ends \in [1..n -> Dates] :
          fit_sessions' = [i \in 1..n |-> [end_date |-> ends[i]]]
    /\ data_to_update' = NoUpdate
    /\ updates' = {}
    /\ run_pc' = "sessions"
    /\ UNCHANGED <<users, user_pos, outcome>>
    /\ UNCHANGED mergeVars

\* sync lines 161-172
SyncCollect ==
    /\ run_pc = "sessions"
    /\ data_to_update' = CollectSessions(data_to_update, fit_sessions)
    /\ run_pc' = "weights"
    /\ UNCHANGED <<users, user_pos, outcome, data, fit_sessions, updates>>
    /\ UNCHANGED mergeVars

\* sync line 174: min() of the empty set raises ValueError; run (line 132) has
\* no handler, so the exception ends run
SyncRaise ==
    /\ run_pc = "weights"
    /\ missing_weight_dates = {}
    /\ outcome' = [outcome EXCEPT ![user_pos] = "raised"]
    /\ run_pc' = "raised"
    /\ UNCHANGED <<users, user_pos, data, fit_sessions, data_to_update, updates>>
    /\ UNCHANGED mergeVars

\* sync lines 174-181
SyncWeights ==
    /\ run_pc = "weights"
    /\ missing_weight_dates # {}
    /\ \E weight_values \in SUBSET Dates :
          data_to_update' = CollectWeights(data_to_update, weight_values)
    /\ run_pc' = "update"
    /\ UNCHANGED <<users, user_pos, outcome, data, fit_sessions, updates>>
    /\ UNCHANGED mergeVars

\* sync lines 183-186
SyncUpdate ==
    /\ run_pc = "update"
    /\ updates' = UpdateCalls(data_to_update)
    /\ run_pc' = "return"
    /\ UNCHANGED <<users, user_pos, outcome, data, fit_sessions, data_to_update>>
    /\ UNCHANGED mergeVars

\* sync returns (its locals are gone) and run's loop moves on, lines 128-132
SyncReturn ==
    /\ run_pc = "return"
    /\ outcome' = [outcome EXCEPT ![user_pos] = "returned"]
    /\ user_pos' = user_pos + 1
    /\ data' = NoUpdate
    /\ fit_sessions' = <<>>
    /\ data_to_update' = NoUpdate
    /\ updates' = {}
    /\ run_pc' = "run"
    /\ UNCHANGED users
    /\ UNCHANGED mergeVars

\* run line 128: the loop over the users is exhausted
RunReturn ==
    /\ run_pc = "run"
    /\ user_pos > users
    /\ run_pc' = "done"
    /\ UNCHANGED <<users, user_pos, outcome, data, fit_sessions, data_to_update, updates>>
    /\ UNCHANGED mergeVars

NextSync ==
    \/ SyncFetch
    \/ SyncCollect
    \/ SyncRaise
    \/ SyncWeights
    \/ SyncUpdate
    \/ SyncReturn
    \/ RunReturn

SpecSync == InitSync /\ [][NextSync]_vars

(***************************************************************************)
(* Properties of get_sleep_sessions.                                       *)
(***************************************************************************)
Last(seq) == seq[Len(seq)]

\* get_sleep_sessions(segments=True) returned a non-empty tuple: the merge
\* ran to its end.
Merged == pc = "returned" /\ segments /\ Len(sleep_sessions) > 0

\* The provider answered in chronological order, the sessions disjoint.
ChronologicalInput ==
    /\ \A i \in 1..(Len(sleep_sessions) - 1) :
          /\ sleep_sessions[i].start_time <= sleep_sessions[i + 1].start_time
          /\ sleep_sessions[i].end_time < sleep_sessions[i + 1].start_time
    /\ \A k \in 1..(Len(sleep_segments) - 1) :
          sleep_segments[k].start_time <= sleep_segments[k + 1].start_time

IsProvided(segment) == segment.origin # 0

\* The provider's segments a session holds, in the order it holds them.
Provided(session) == SelectSeq(session.sleep_segments, IsProvided)

Ordered(segs) ==
    \A j \in 1..(Len(segs) - 1) : segs[j].start_time <= segs[j + 1].start_time

Contiguous(segs) ==
    \A j \in 1..(Len(segs) - 1) : segs[j].end_time = segs[j + 1].start_time

Covers(session) ==
    /\ Len(session.sleep_segments) >= 1
    /\ session.sleep_segments[1].start_time = session.start_time
    /\ Last(session.sleep_segments).end_time = session.end_time

\* The segment list tiles the session: no gap, no overlap, edge to edge.
Tiled(session) == Contiguous(session.sleep_segments) /\ Covers(session)

\* C1 as stated: after a merge of chronological input every session's
\* segment list is ordered by start, contiguous, and runs from the session's
\* start to the session's end.
C1_CoverageCompleteness ==
    (Merged /\ ChronologicalInput) =>
        \A i \in 1..Len(returned) :
            Ordered(returned[i].sleep_segments) /\ Tiled(returned[i])

\* C1 amended: after a merge of chronological input every session's segment
\* list is non-empty and ordered by start, its first segment starts at the
\* session's start and its last segment ends at or after the session's end;
\* the list tiles the session whenever the provider's segments held by the
\* session are contiguous among themselves and end no later than the session.
C1_EdgeCoverage ==
    (Merged /\ ChronologicalInput) =>
        \A i \in 1..Len(returned) :
            LET session == returned[i]
                segs == session.sleep_segments
                own == Provided(session)
            IN /\ Len(segs) >= 1
               /\ Ordered(segs)
               /\ segs[1].start_time = session.start_time
               /\ Last(segs).end_time >= session.end_time
               /\ (/\ Contiguous(own)
                   /\ (own # <<>> => Last(own).end_time <= session.end_time))
                    => Tiled(session)

\* A session holding two contiguous provider segments and a filler, tiled.
C1_Witness ==
    /\ Merged /\ ChronologicalInput
    /\ \E i \in 1..Len(returned) :
          /\ Len(Provided(returned[i])) >= 2
          /\ Len(returned[i].sleep_segments) > Len(Provided(returned[i]))
          /\ Tiled(returned[i])

\* Where the segments of the returned sessions sit: <<session, position>>.
Positions ==
    UNION {{<<i, j>> : j \in 1..Len(returned[i].sleep_segments)} : i \in 1..Len(returned)}

\* C2: after a merge, every segment of the provider's answer sits at exactly
\* one position of exactly one returned session, with its start, end and
\* stage as the provider gave them.
C2_Conservation ==
    Merged =>
        \A k \in 1..Len(sleep_segments) :
            LET holders == {p \in Positions : returned[p[1]].sleep_segments[p[2]].origin = k}
            IN /\ Cardinality(holders) = 1
               /\ \A p \in holders : returned[p[1]].sleep_segments[p[2]] = sleep_segments[k]

\* Two sessions each hold a provider segment and a filler was added.
C2_Witness ==
    /\ Merged
    /\ Len(sleep_segments) >= 2
    /\ \E i, j \in 1..Len(returned) :
          /\ i # j
          /\ Len(Provided(returned[i])) >= 1
          /\ Len(Provided(returned[j])) >= 1
          /\ Len(returned[j].sleep_segments) > Len(Provided(returned[j]))

\* The start of the segment lies in no session's interval.
Orphan(segment) ==
    \A i \in 1..Len(sleep_sessions) :
        ~(/\ sleep_sessions[i].start_time <= segment.start_time
          /\ segment.start_time <= sleep_sessions[i].end_time)

\* C3: when a segment of the provider's answer starts in no session's
\* interval, the caller receives nothing, the sweep never reaches the
\* fillers, and the call can only end by raising "Illegal state".
C3_FatalPath ==
    (\E k \in 1..Len(sleep_segments) : Orphan(sleep_segments[k])) =>
        /\ returned = <<>>
        /\ pc \in {"sweep", "raised"}
        /\ pc = "sweep" => next_segment <= Len(sleep_segments)

\* The call raised after a session had been given a segment.
C3_Witness ==
    /\ pc = "raised"
    /\ returned = <<>>
    /\ \E i \in 1..Len(sleep_sessions) : Len(sleep_sessions[i].sleep_segments) >= 1

\* C4: an empty answer is no error.  With zero sessions the call returns the
\* empty tuple; with sessions and zero segments it returns every session
\* with one Sleep segment from the session's start to its end, and the
\* session's asleep_duration is its whole duration.
C4_EmptyInput ==
    /\ (pc \in {"returned", "raised"} /\ Len(sleep_sessions) = 0) =>
          (pc = "returned" /\ returned = <<>>)
    /\ (pc \in {"returned", "raised"} /\ segments /\ Len(sleep_sessions) > 0
          /\ Len(sleep_segments) = 0) =>
          /\ pc = "returned"
          /\ Len(returned) = Len(sleep_sessions)
          /\ \A i \in 1..Len(returned) :
                /\ returned[i].sleep_segments =
                      <<[start_time |-> returned[i].start_time,
                         end_time |-> returned[i].end_time,
                         sleep_type |-> "Sleep", origin |-> 0]>>
                /\ asleep_duration(returned[i]) =
                      returned[i].end_time - returned[i].start_time

\* Two sessions returned after the provider answered with no segment.
C4_Witness ==
    /\ Merged
    /\ Len(sleep_segments) = 0
    /\ Len(returned) >= 2
    /\ \E i \in 1..Len(returned) : returned[i].start_time < returned[i].end_time

\* C5 as stated: asleep_duration + awake_duration is at most the session's
\* duration, with equality exactly when no segment is Out_of_bed.
C5_DurationAdditivity ==
    Merged =>
        \A i \in 1..Len(returned) :
            LET session == returned[i]
                total == session.end_time - session.start_time
                counted == asleep_duration(session) + awake_duration(session)
            IN /\ counted <= total
               /\ counted = total <=>
                    \A j \in 1..Len(session.sleep_segments) :
                        session.sleep_segments[j].sleep_type
                            \in {"Sleep", "Light_Sleep", "Deep_Sleep", "REM", "Awake"}

\* C5 amended: for a returned session whose segment list tiles it,
\* asleep_duration + awake_duration is at most the session's duration, with
\* equality exactly when no Out_of_bed segment has a positive duration.
C5_TiledAdditivity ==
    Merged =>
        \A i \in 1..Len(returned) :
            LET session == returned[i]
                total == session.end_time - session.start_time
                counted == asleep_duration(session) + awake_duration(session)
            IN Tiled(session) =>
                /\ counted <= total
                /\ counted = total <=>
                     \A j \in 1..Len(session.sleep_segments) :
                         session.sleep_segments[j].sleep_type = "Out_of_bed" =>
                             session.sleep_segments[j].end_time =
                                 session.sleep_segments[j].start_time

\* A tiled session with an Out_of_bed segment that lasts and an Awake one.
C5_Witness ==
    /\ Merged
    /\ \E i \in 1..Len(returned) :
          /\ Tiled(returned[i])
          /\ \E j \in 1..Len(returned[i].sleep_segments) :
                /\ returned[i].sleep_segments[j].sleep_type = "Out_of_bed"
                /\ returned[i].sleep_segments[j].end_time
                      > returned[i].sleep_segments[j].start_time
          /\ awake_duration(returned[i]) > 0
          /\ asleep_duration(returned[i]) + awake_duration(returned[i])
                < returned[i].end_time - returned[i].start_time

\* C6: a session that was given segments holds, in this order: a Sleep
\* filler from the session's start to the first given segment's start iff
\* that segment starts after the session's start; the given segments in the
\* provider's order; a Sleep filler from the last given segment's end to the
\* session's end iff that segment ends before the session's end.
C6_EdgeOnlyFilling ==
    Merged =>
        \A i \in 1..Len(returned) :
            LET session == returned[i]
                own == Provided(session)
            IN Len(own) >= 1 =>
                LET lead == IF own[1].start_time > session.start_time
                            THEN <<[start_time |-> session.start_time,
                                    end_time |-> own[1].start_time,
                                    sleep_type |-> "Sleep", origin |-> 0]>>
                            ELSE <<>>
                    trail == IF Last(own).end_time < session.end_time
                             THEN <<[start_time |-> Last(own).end_time,
                                     end_time |-> session.end_time,
                                     sleep_type |-> "Sleep", origin |-> 0]>>
                             ELSE <<>>
                IN /\ session.sleep_segments = lead \o own \o trail
                   /\ \A j \in 1..(Len(own) - 1) : own[j].origin < own[j + 1].origin
                   /\ Len(session.sleep_segments) <= Len(own) + 2

\* A session given two segments that got both fillers.
C6_Witness ==
    /\ Merged
    /\ \E i \in 1..Len(returned) :
          /\ Len(Provided(returned[i])) >= 2
          /\ Len(returned[i].sleep_segments) = Len(Provided(returned[i])) + 2

\* C7: whatever the order of the provider's answers, a merge that returns
\* holds every segment in a session whose closed interval contains the
\* segment's start.
C7_OrderingPrecondition ==
    Merged =>
        \A i \in 1..Len(returned) :
            \A j \in 1..Len(returned[i].sleep_segments) :
                /\ returned[i].start_time <= returned[i].sleep_segments[j].start_time
                /\ returned[i].sleep_segments[j].start_time <= returned[i].end_time

\* A merge returned although sessions and segments came out of order.
C7_Witness ==
    /\ Merged
    /\ \E i \in 1..(Len(sleep_sessions) - 1) :
          sleep_sessions[i].start_time > sleep_sessions[i + 1].start_time
    /\ \E k \in 1..(Len(sleep_segments) - 1) :
          sleep_segments[k].start_time > sleep_segments[k + 1].start_time

\* The sessions at or after the cursor whose closed interval contains the
\* segment's start (0-based indices).
Candidates(segment) ==
    {i \in session_index..(Len(sleep_sessions) - 1) :
        /\ sleep_sessions[i + 1].start_time <= segment.start_time
        /\ segment.start_time <= sleep_sessions[i + 1].end_time}

Lowest(S) == CHOOSE i \in S : \A j \in S : i <= j

\* C8: the cursor starts the sweep at 0 and never decreases; a segment is
\* appended to the lowest-indexed session at or after the cursor whose closed
\* interval contains the segment's start, and the cursor is left on that
\* session.
C8_ForwardOnlyCursor ==
    [][/\ session_index' >= session_index
       /\ (pc = "sessions" /\ pc' = "sweep") => session_index' = 0
       /\ (pc = "sweep" /\ next_segment' = next_segment + 1) =>
            LET segment == sleep_segments[next_segment]
            IN /\ Candidates(segment) # {}
               /\ session_index' = Lowest(Candidates(segment))
               /\ sleep_sessions' =
                    [sleep_sessions EXCEPT
                        ![Lowest(Candidates(segment)) + 1].sleep_segments =
                            Append(@, segment)]]_vars

\* The cursor has moved and the session under it was given two segments.
C8_Witness ==
    /\ pc = "sweep"
    /\ session_index >= 1
    /\ session_index < Len(sleep_sessions)
    /\ Len(sleep_sessions[session_index + 1].sleep_segments) >= 2

(***************************************************************************)
(* Properties of run and sync.                                             *)
(***************************************************************************)
\* run has ended, by returning or by an exception.
RunEnded == run_pc \in {"done", "raised"}

\* The call of sync in progress has come to its end: it is about to return,
\* or it raised.
SyncEnded == run_pc \in {"return", "raised"}

\* C9: when run has ended, sync has been performed for every configured
\* user, also for the users that follow one whose sync raised.
C9_SkipAndContinue ==
    RunEnded => \A u \in 1..users : outcome[u] # "none"

\* C10: when a call of sync comes to its end, every date whose sleepSecs is missing
\* in the ledger and on which a provider session ends has received a
\* wellness update that holds sleepSecs.
C10_GapReachesLedger ==
    SyncEnded =>
        \A d \in missing_sleep_dates :
            (\E i \in 1..Len(fit_sessions) : fit_sessions[i].end_date = d) =>
                \E call \in updates : call[1] = d /\ "sleepSecs" \in call[2]

\* C11: every wellness update sync sends sets a field for a date only if the
\* ledger had that field missing for that date or, for sleepSecs and
\* restingHR only, the date is today; a weight is written only where the
\* ledger's weight was missing.
C11_OnlyGapsWritten ==
    \A call \in updates :
        \A field \in call[2] :
            \/ field \in data[call[1]]
            \/ field \in {"sleepSecs", "restingHR"} /\ call[1] = today

\* sync sent an update for a past date on which a session ended: the resting
\* heart rate, missing there, is set and the sleep time, present, is not; a
\* missing weight is written as well.
C11_Witness ==
    /\ run_pc = "return"
    /\ \E call \in updates :
          /\ call[1] < today
          /\ \E i \in 1..Len(fit_sessions) : fit_sessions[i].end_date = call[1]
          /\ "sleepSecs" \notin data[call[1]]
          /\ "restingHR" \in call[2]
          /\ "sleepSecs" \notin call[2]
    /\ \E call \in updates : "weight" \in call[2]
    /\ \E d \in Dates : "weight" \notin data[d]

====
